---- MODULE Spec2Model ----
(***************************************************************************)
(* A model of the suta.in scraper (src/suta_scraper.py): the paginated    *)
(* fetch loop of fetch_products over a session with a urllib3 Retry       *)
(* policy, and save_products: the ThreadPoolExecutor download stage, the  *)
(* as_completed collection loop with its 60 s timeout, and the report.    *)
(*                                                                         *)
(* Time is abstracted: the 60 s batch timeout may expire at any moment at *)
(* which as_completed is still waiting for a future.  The remote servers  *)
(* are the environment: each HTTP attempt and each download ends in an    *)
(* outcome the environment picks.                                          *)
(***************************************************************************)
EXTENDS Integers, Sequences, FiniteSets, TLC

VARIABLES
    pc,               \* position of the main thread
    exc,              \* the exception that escaped the run ("none" if none)
    page,             \* fetch_products: page
    all_products,     \* fetch_products: all_products
    retries_left,     \* Retry.total still left beneath the current session.get
    attempts,         \* HTTP attempts made beneath the current session.get
    last,             \* how the latest of them ended: 0 (network failure) or the status
    response,         \* what session.get handed (or raised) to fetch_products
    inflight,         \* page numbers whose request is outstanding
    requests,         \* history: page numbers requested, in order
    log,              \* history: what each session.get ended with, in order
    fetched,          \* fetch_products has returned to __main__
    products,         \* the argument of save_products
    image_tasks,      \* save_products: image_tasks
    fut,              \* the futures submitted so far, by task index: state and result
    pending,          \* as_completed: futures not yet yielded
    timed_out,        \* history: the tasks unfinished when the 60 s were over
    download_results, \* save_products: download_results
    output_file,      \* suta_products.txt: <<>> (not written) or <<records>>
    disk,             \* the image files, by file name: "partial" or "complete"
    reliable,         \* environment: product ids whose image download cannot fail
    slow,             \* environment: product ids whose image download outlasts the 60 s
    flaky_once        \* environment: product ids whose image host fails the first
                      \* request with a 503 or a timeout and serves every later one

vars == <<pc, exc, page, all_products, retries_left, attempts, last, response, inflight,
          requests, log, fetched, products, image_tasks, fut, pending, timed_out,
          download_results, output_file, disk, reliable, slow, flaky_once>>

fetchVars == <<page, all_products, retries_left, attempts, last, response, inflight,
               requests, log, fetched>>

saveVars == <<image_tasks, fut, pending, timed_out, download_results, output_file, disk>>

(***************************************************************************)
(* Bounds of the model and constants of the program.                      *)
(***************************************************************************)
\* pages of the endpoint that may carry products
MaxPages == 2
\* products the endpoint carries in all
MaxEntries == 3
\* products handed to save_products in the pool specification
NPool == 12

\* Retry(total=3)
RetryTotal == 3
\* ThreadPoolExecutor(max_workers=10)
MaxWorkers == 10

\* Retry(status_forcelist=[429, 500, 502, 503, 504])
StatusForcelist == {429, 500, 502, 503, 504}

\* the statuses the modelled endpoint answers with
Statuses == {200, 404} \cup StatusForcelist

(***************************************************************************)
(* Optional values: None is <<>>, a value v is <<v>>.                      *)
(***************************************************************************)
None == <<>>

Some(v) == <<v>>

(***************************************************************************)
(* The endpoint's product entries.  An entry is a JSON object; a shape    *)
(* says which of the expected fields it has.  URLs are sequences of       *)
(* tokens, the separators ".", "/" and "?" being tokens of their own.     *)
(***************************************************************************)
Shapes == {"img", "noimg", "novariants", "nokey"}

ProductId(i) == 100 + i

ImageSrc(i, n) == <<"https:", "/", "/", "cdn", "/", "p", ToString(i), "_", ToString(n), ".", "png", "?", "v=1">>

Entry(i, shape) ==
    LET base == [id |-> ProductId(i), title |-> <<"Product", i>>, handle |-> <<"product-", i>>]
        imgs == <<[src |-> ImageSrc(i, 1)], [src |-> ImageSrc(i, 2)]>>
        vars1 == <<[price |-> 10 * i]>>
        vars2 == <<[price |-> 10 * i], [price |-> 10 * i + 5]>>
    IN  CASE shape = "img"        -> [id |-> base.id, title |-> base.title, handle |-> base.handle,
                                      images |-> imgs, variants |-> vars2]
          [] shape = "noimg"      -> [id |-> base.id, title |-> base.title, handle |-> base.handle,
                                      images |-> <<>>, variants |-> vars1]
          [] shape = "novariants" -> [id |-> base.id, title |-> base.title, handle |-> base.handle,
                                      images |-> imgs, variants |-> <<>>]
          [] OTHER                -> [id |-> base.id, title |-> base.title, handle |-> base.handle,
                                      images |-> imgs]

\* the sequences over S of length 1..n
SeqsUpTo(S, n) == UNION {[1..k -> S] : k \in 1..n}

\* the entries of a page whose shapes are sh, the first being the (base+1)-th product
PageEntries(base, sh) == [k \in 1..Len(sh) |-> Entry(base + k, sh[k])]

(***************************************************************************)
(* fetch_products: normalization of one entry (lines 59-67).              *)
(***************************************************************************)
\* a normalization that reads images[0] without asking whether the list is empty
NormalizeErrorEmptyImages(p) ==
    IF "images" \notin DOMAIN p THEN "KeyError"
    ELSE IF p.images = <<>> THEN "IndexError"
    ELSE IF "id" \notin DOMAIN p \/ "title" \notin DOMAIN p THEN "KeyError"
    ELSE IF "variants" \notin DOMAIN p THEN "KeyError"
    ELSE IF p.variants = <<>> THEN "IndexError"
    ELSE IF "handle" \notin DOMAIN p THEN "KeyError"
    ELSE "none"

\* the exception the normalization of entry p raises, "none" if none
NormalizeError(p) ==
    IF "images" \notin DOMAIN p THEN "KeyError"
    ELSE IF "id" \notin DOMAIN p \/ "title" \notin DOMAIN p THEN "KeyError"
    ELSE IF "variants" \notin DOMAIN p THEN "KeyError"
    ELSE IF p.variants = <<>> THEN "IndexError"
    ELSE IF "handle" \notin DOMAIN p THEN "KeyError"
    ELSE "none"

Normalize(p) ==
    [id |-> p.id,
     title |-> p.title,
     price |-> p.variants[1].price,
     image |-> IF p.images # <<>> THEN Some(p.images[1].src) ELSE None,
     url |-> <<"https://suta.in/products/", p.handle>>]

\* the first exception the for loop over a page raises, "none" if none
RECURSIVE PageError(_)
PageError(entries) ==
    IF entries = <<>> THEN "none"
    ELSE IF NormalizeError(Head(entries)) # "none" THEN NormalizeError(Head(entries))
    ELSE PageError(Tail(entries))

\* a for loop that inserts each record at the front of the list
RECURSIVE AppendPageAtFront(_, _)
AppendPageAtFront(acc, entries) ==
    IF entries = <<>> THEN acc
    ELSE AppendPageAtFront(<<Normalize(Head(entries))>> \o acc, Tail(entries))

\* the for loop over a page none of whose entries raises: all_products.append
RECURSIVE AppendPage(_, _)
AppendPage(acc, entries) ==
    IF entries = <<>> THEN acc
    ELSE AppendPage(Append(acc, Normalize(Head(entries))), Tail(entries))

(***************************************************************************)
(* The session's retry policy (create_session) beneath session.get.       *)
(***************************************************************************)
\* an attempt's outcome: a network-level failure, or a response
NetError == [kind |-> "neterr"]

HttpResponse(status, body) == [kind |-> "http", status |-> status, body |-> body]

\* a retry policy whose status_forcelist holds 404 as well
IsRetryAlso404(o) ==
    o.kind = "neterr" \/ (o.kind = "http" /\ o.status \in StatusForcelist \cup {404})

\* the retry policy retries this outcome, retries permitting
IsRetry(o) == o.kind = "neterr" \/ (o.kind = "http" /\ o.status \in StatusForcelist)

\* what session.get ends with once the retries are used up
Exhausted(o) ==
    IF o.kind = "neterr" THEN [kind |-> "exception", type |-> "ConnectionError"]
    ELSE [kind |-> "exception", type |-> "RetryError"]

(***************************************************************************)
(* fetch_products: the try block (lines 47-53) and what follows it.       *)
(***************************************************************************)
\* an except clause that names requests.RequestException alone
TryOutcomeNoValueError(r) ==
    IF r.kind = "exception" THEN "break"
    ELSE IF r.status >= 400 THEN "break"
    ELSE IF r.body.kind \in {"notjson", "nonobject"} THEN "raise"
    ELSE "data"

\* "break": the except clause catches; "raise": an exception escapes;
\* "data": data is a dict
TryOutcome(r) ==
    IF r.kind = "exception" THEN "break"
    ELSE IF r.status >= 400 THEN "break"
    ELSE IF r.body.kind = "notjson" THEN "break"
    ELSE IF r.body.kind = "nonobject" THEN "raise"
    ELSE "data"

\* data.get("products", [])
GetProducts(body) == IF body.kind = "object" THEN body.products ELSE <<>>

\* a loop without the break of lines 56-57
LoopBreaksNever(prods) == FALSE

\* lines 56-57: if not products: break
LoopBreaks(prods) == prods = <<>>

\* a loop that forgets page += 1
NextPageSame(p) == p

NextPage(p) == p + 1

\* the products the endpoint has served so far
RECURSIVE ServedCount(_)
ServedCount(l) ==
    IF l = <<>> THEN 0
    ELSE (IF l[Len(l)].kind = "http" /\ l[Len(l)].status = 200
          THEN Len(GetProducts(l[Len(l)].body)) ELSE 0)
         + ServedCount(SubSeq(l, 1, Len(l) - 1))

\* the bodies the endpoint may send with a 200 for page n
Bodies(n) ==
    LET base == ServedCount(log)
        room == IF n <= MaxPages THEN MaxEntries - base ELSE 0
    IN  {[kind |-> "notjson"], [kind |-> "nonobject"], [kind |-> "nokey"],
         [kind |-> "object", products |-> <<>>]}
        \cup {[kind |-> "object", products |-> PageEntries(base, sh)] :
                sh \in SeqsUpTo(Shapes, room)}

\* what one HTTP attempt for page n may end with
AttemptOutcomes(n) ==
    {NetError}
    \cup {HttpResponse(200, b) : b \in Bodies(n)}
    \cup {HttpResponse(s, [kind |-> "notjson"]) : s \in Statuses \ {200}}

\* an attempt's outcome in short: 0 for a network-level failure, else the status
Code(o) == IF o.kind = "neterr" THEN 0 ELSE o.status

\* the retry policy makes another attempt after outcome o
RetriesNow(o, left) == IsRetry(o) /\ left > 0

\* lines 43-48: the loop issues the request for the current page
IssueRequest ==
    /\ pc = "request"
    /\ pc' = "awaiting"
    /\ inflight' = inflight \cup {page}
    /\ requests' = Append(requests, page)
    /\ retries_left' = RetryTotal
    /\ attempts' = 0
    /\ UNCHANGED <<exc, page, all_products, last, response, log, fetched, products, reliable, slow, flaky_once>>
    /\ UNCHANGED saveVars

\* line 48: one HTTP attempt beneath session.get, and the retry policy's verdict
Attempt ==
    /\ pc = "awaiting"
    /\ \E o \in AttemptOutcomes(page) :
        /\ attempts' = attempts + 1
        /\ last' = Code(o)
        /\ IF RetriesNow(o, retries_left)
           THEN /\ retries_left' = retries_left - 1
                /\ UNCHANGED <<pc, response, log, inflight>>
           ELSE LET r == IF IsRetry(o) THEN Exhausted(o) ELSE o
                IN  /\ response' = r
                    /\ log' = Append(log, r)
                    /\ inflight' = inflight \ {page}
                    /\ pc' = "got_response"
                    /\ UNCHANGED retries_left
    /\ UNCHANGED <<exc, page, all_products, requests, fetched, products, reliable, slow, flaky_once>>
    /\ UNCHANGED saveVars

\* lines 49-72, and line 144: the rest of one iteration of the loop; the call of
\* session.get is over, and its retry state with it
HandleResponse ==
    /\ pc = "got_response"
    /\ LET prods == GetProducts(response.body)
           return == /\ products' = all_products
                     /\ fetched' = TRUE
                     /\ pc' = "save_prepare"
                     /\ UNCHANGED <<exc, page, all_products>>
       IN  CASE TryOutcome(response) = "break" -> return
             [] TryOutcome(response) = "raise" ->
                   /\ pc' = "crashed"
                   /\ exc' = "AttributeError"
                   /\ UNCHANGED <<page, all_products, fetched, products>>
             [] OTHER ->
                   IF LoopBreaks(prods) THEN return
                   ELSE IF PageError(prods) # "none"
                   THEN /\ pc' = "crashed"
                        /\ exc' = PageError(prods)
                        /\ UNCHANGED <<page, all_products, fetched, products>>
                   ELSE /\ all_products' = AppendPage(all_products, prods)
                        /\ page' = NextPage(page)
                        /\ pc' = "request"
                        /\ UNCHANGED <<exc, fetched, products>>
    /\ retries_left' = RetryTotal
    /\ attempts' = 0
    /\ last' = 0
    /\ UNCHANGED <<response, inflight, requests, log, reliable, slow, flaky_once>>
    /\ UNCHANGED saveVars

(***************************************************************************)
(* download_image (lines 74-92).                                          *)
(***************************************************************************)
\* the largest index of token c in url, 0 if there is none
LastIndexOf(url, c) ==
    LET hits == {k \in 1..Len(url) : url[k] = c}
    IN  IF hits = {} THEN 0 ELSE CHOOSE k \in hits : \A j \in hits : j <= k

\* os.path.splitext(url)[1]
SplitExt(url) ==
    LET sepIndex == LastIndexOf(url, "/")
        dotIndex == LastIndexOf(url, ".")
    IN  IF dotIndex > sepIndex
           /\ \E k \in (sepIndex + 1)..(dotIndex - 1) : url[k] # "."
        THEN SubSeq(url, dotIndex, Len(url))
        ELSE <<>>

\* s.split('?')[0]
BeforeQuery(s) ==
    LET hits == {k \in 1..Len(s) : s[k] = "?"}
    IN  IF hits = {} THEN s
        ELSE SubSeq(s, 1, (CHOOSE k \in hits : \A j \in hits : k <= j) - 1)

\* line 78
Ext(url) ==
    IF BeforeQuery(SplitExt(url)) # <<>> THEN BeforeQuery(SplitExt(url)) ELSE <<".", "jpg">>

\* how a download may end: completely written, or an exception in the try block:
\* an error status (raise_for_status), a timeout or a network error before the
\* response, an error while the body is streamed, or an OSError of open
DownloadEnds == {"ok", "http_error", "http_503", "timeout", "net_error", "stream_error",
                 "io_error"}

\* the ends a retry policy would retry
TransientEnds == {"http_503", "timeout"}

\* the file is opened (line 83) only when the status is no error
Opens(how) == how \in {"ok", "stream_error"}

\* the opened file when the download ends this way: "complete" when the loop of
\* lines 84-85 has written every chunk, "partial" when it was cut short
FileAfter(how) == IF how = "ok" THEN "complete" ELSE "partial"

\* a download_image whose except clauses return the file name
DownloadImageFileName(url, filename, how) ==
    IF how = "ok" THEN <<filename \o Ext(url), TRUE>> ELSE <<filename \o Ext(url), FALSE>>

\* a download_image that reports success once the file is opened
DownloadImageOnceOpened(url, filename, how) ==
    IF Opens(how) THEN <<filename \o Ext(url), TRUE>> ELSE <<url, FALSE>>

\* the pair download_image returns
DownloadImage(url, filename, how) ==
    IF how = "ok" THEN <<filename \o Ext(url), TRUE>> ELSE <<url, FALSE>>

(***************************************************************************)
(* save_products (lines 94-140).                                          *)
(***************************************************************************)
\* if product["image"]: neither None nor the empty string
Truthy(image) == image # None /\ image[1] # <<>>

\* os.path.join(IMAGE_FOLDER, f"product_{product['id']}")
ImgPath(id) == <<"images", "/", "product_", ToString(id)>>

\* a task list with a task for every product, image or not
RECURSIVE BuildTasksAll(_)
BuildTasksAll(ps) ==
    IF ps = <<>> THEN <<>>
    ELSE <<[pid |-> Head(ps).id,
            url |-> IF Head(ps).image = None THEN <<>> ELSE Head(ps).image[1],
            path |-> ImgPath(Head(ps).id)]>>
         \o BuildTasksAll(Tail(ps))

\* lines 101-104: the tasks of the products that have an image, in order
RECURSIVE BuildTasks(_)
BuildTasks(ps) ==
    IF ps = <<>> THEN <<>>
    ELSE (IF Truthy(Head(ps).image)
          THEN <<[pid |-> Head(ps).id, url |-> Head(ps).image[1], path |-> ImgPath(Head(ps).id)]>>
          ELSE <<>>)
         \o BuildTasks(Tail(ps))

Tasks == 1..Len(image_tasks)

Running == {t \in 1..Len(fut) : fut[t].st = "running"}

Queued == {t \in 1..Len(fut) : fut[t].st = "queued"}

Finished == {t \in 1..Len(fut) : fut[t].st = "finished"}

\* a pool that starts a thread for every call
WorkerAlwaysFree == TRUE

\* a thread of the pool is free to take a queued call
WorkerFree == Cardinality(Running) < MaxWorkers

\* an assignment of a new mapping that holds the one entry
PutAnew(d, k, v) == [x \in {k} |-> v]

\* d with d[k] = v
Put(d, k, v) == [x \in (DOMAIN d) \cup {k} |-> IF x = k THEN v ELSE d[x]]

\* lines 96-105
PrepareTasks ==
    /\ pc = "save_prepare"
    /\ image_tasks' = BuildTasks(products)
    /\ fut' = <<>>
    /\ download_results' = <<>>
    /\ pc' = "submit"
    /\ UNCHANGED <<exc, products, pending, timed_out, output_file, disk,
                 reliable, slow, flaky_once>>
    /\ UNCHANGED fetchVars

\* lines 108-111: executor.submit of the next task
Submit ==
    /\ pc = "submit"
    /\ Len(fut) < Len(image_tasks)
    /\ fut' = Append(fut, [st |-> "queued", result |-> None])
    /\ UNCHANGED <<pc, exc, products, image_tasks, pending, timed_out, download_results, output_file, disk,
                 reliable, slow, flaky_once>>
    /\ UNCHANGED fetchVars

\* line 113: every task is submitted; as_completed starts to wait
AsCompleted ==
    /\ pc = "submit"
    /\ Len(fut) = Len(image_tasks)
    /\ pending' = Tasks
    /\ pc' = "collect"
    /\ UNCHANGED <<exc, products, image_tasks, fut, timed_out, download_results, output_file, disk,
                 reliable, slow, flaky_once>>
    /\ UNCHANGED fetchVars

\* a pool thread takes the oldest queued call and enters download_image
StartDownload ==
    /\ Queued # {}
    /\ WorkerFree
    /\ LET t == CHOOSE q \in Queued : \A r \in Queued : q <= r
       IN  fut' = [fut EXCEPT ![t].st = "running"]
    /\ UNCHANGED <<pc, exc, products, image_tasks, pending, timed_out, download_results, output_file, disk,
                 reliable, slow, flaky_once>>
    /\ UNCHANGED fetchVars

\* lines 76-92: download_image returns, and the future holds its pair
FinishDownload ==
    /\ \E t \in Running :
        \E how \in DownloadEnds :
            /\ how # "ok" => image_tasks[t].pid \notin reliable
            /\ image_tasks[t].pid \in slow => pc = "shutdown"
            /\ image_tasks[t].pid \in flaky_once => how \in TransientEnds
            /\ fut' = [fut EXCEPT ![t] =
                          [st |-> "finished",
                           result |-> Some(DownloadImage(image_tasks[t].url,
                                                         image_tasks[t].path, how))]]
            /\ IF Opens(how)
               THEN disk' = Put(disk, image_tasks[t].path \o Ext(image_tasks[t].url),
                                FileAfter(how))
               ELSE UNCHANGED disk
    /\ UNCHANGED <<pc, exc, products, image_tasks, pending, timed_out, download_results, output_file,
                   reliable, slow, flaky_once>>
    /\ UNCHANGED fetchVars

\* lines 113-117: as_completed yields a finished future; its pair is recorded
Collect ==
    /\ pc = "collect"
    /\ \E t \in pending \cap Finished :
        /\ download_results' = Put(download_results, image_tasks[t].pid, fut[t].result[1])
        /\ pending' = pending \ {t}
    /\ UNCHANGED <<pc, exc, products, image_tasks, fut, timed_out, output_file, disk,
                 reliable, slow, flaky_once>>
    /\ UNCHANGED fetchVars

\* line 113: every future was yielded; the with block ends
CollectDone ==
    /\ pc = "collect"
    /\ pending = {}
    /\ pc' = "write"
    /\ UNCHANGED <<exc, products, image_tasks, fut, pending, timed_out, download_results, output_file, disk,
                 reliable, slow, flaky_once>>
    /\ UNCHANGED fetchVars

\* a with block whose exit cancels the calls still queued
TimeoutCancelling ==
    /\ pc = "collect"
    /\ pending # {}
    /\ pc' = "shutdown"
    /\ timed_out' = Tasks \ Finished
    /\ fut' = [t \in 1..Len(fut) |->
                  IF fut[t].st = "queued" THEN [st |-> "cancelled", result |-> None]
                  ELSE fut[t]]
    /\ UNCHANGED <<exc, products, image_tasks, pending, download_results, output_file, disk,
                 reliable, slow, flaky_once>>
    /\ UNCHANGED fetchVars

\* line 113: the 60 s are over with futures not yet yielded: as_completed raises
\* TimeoutError, outside the try of lines 115-120
Timeout ==
    /\ pc = "collect"
    /\ pending # {}
    /\ pc' = "shutdown"
    /\ timed_out' = Tasks \ Finished
    /\ UNCHANGED <<exc, products, image_tasks, fut, pending, download_results, output_file, disk,
                 reliable, slow, flaky_once>>
    /\ UNCHANGED fetchVars

\* line 107: the with block's exit waits for every submitted call, then the
\* TimeoutError leaves save_products and the run
ShutdownDone ==
    /\ pc = "shutdown"
    /\ Finished = Tasks
    /\ pc' = "crashed"
    /\ exc' = "TimeoutError"
    /\ UNCHANGED <<products, image_tasks, fut, pending, timed_out, download_results, output_file, disk,
                 reliable, slow, flaky_once>>
    /\ UNCHANGED fetchVars

\* an image line whose lookup defaults to (None, True)
ImageLineDefaultTrue(product, results) ==
    IF Truthy(product.image)
    THEN LET pair == IF product.id \in DOMAIN results THEN results[product.id]
                     ELSE <<None, TRUE>>
         IN  IF pair[2] THEN <<"Image saved: ", pair[1]>> ELSE <<"Image download failed">>
    ELSE <<"No image available">>

\* lines 129-136: the image line of one product
ImageLine(product, results) ==
    IF Truthy(product.image)
    THEN LET pair == IF product.id \in DOMAIN results THEN results[product.id]
                     ELSE <<None, FALSE>>
         IN  IF pair[2] THEN <<"Image saved: ", pair[1]>> ELSE <<"Image download failed">>
    ELSE <<"No image available">>

\* lines 124-138: the records of the report
Report(ps, results) ==
    [k \in 1..Len(ps) |->
        [name |-> ps[k].title, price |-> ps[k].price, url |-> ps[k].url,
         image |-> ImageLine(ps[k], results)]]

\* a report stage that takes each outcome out of the mapping as it reads it
WriteReportConsuming ==
    /\ pc = "write"
    /\ output_file' = Some(Report(products, download_results))
    /\ download_results' = <<>>
    /\ pc' = "done"
    /\ UNCHANGED <<exc, products, image_tasks, fut, pending, timed_out, disk,
                 reliable, slow, flaky_once>>
    /\ UNCHANGED fetchVars

\* lines 123-140
WriteReport ==
    /\ pc = "write"
    /\ output_file' = Some(Report(products, download_results))
    /\ pc' = "done"
    /\ UNCHANGED <<exc, products, image_tasks, fut, pending, timed_out, download_results, disk,
                 reliable, slow, flaky_once>>
    /\ UNCHANGED fetchVars

(***************************************************************************)
(* The run of __main__ (lines 142-147).                                   *)
(***************************************************************************)
Init ==
    /\ pc = "request"
    /\ exc = "none"
    /\ page = 1
    /\ all_products = <<>>
    /\ retries_left = RetryTotal
    /\ attempts = 0
    /\ last = 0
    /\ response = NetError
    /\ inflight = {}
    /\ requests = <<>>
    /\ log = <<>>
    /\ fetched = FALSE
    /\ products = <<>>
    /\ image_tasks = <<>>
    /\ fut = <<>>
    /\ pending = {}
    /\ timed_out = {}
    /\ download_results = <<>>
    /\ output_file = None
    /\ disk = <<>>
    /\ reliable = {}
    /\ slow = {}
    /\ flaky_once = {}

Next ==
    \/ IssueRequest
    \/ Attempt
    \/ HandleResponse
    \/ PrepareTasks
    \/ Submit
    \/ AsCompleted
    \/ StartDownload
    \/ FinishDownload
    \/ Collect
    \/ CollectDone
    \/ Timeout
    \/ ShutdownDone
    \/ WriteReport

Spec == Init /\ [][Next]_vars

(***************************************************************************)
(* save_products alone, called with more products than the pool has       *)
(* threads: the second product has no image, only the download of the     *)
(* first product can fail, and the downloads of the fourth product to the *)
(* last but one take longer than the 60 s of the batch wait.  Called with *)
(* three products, the third one's image host fails the first request     *)
(* with a transient error and would serve a second one.                   *)
(***************************************************************************)
PoolShapes(n) == [k \in 1..n |-> IF k = 2 THEN "noimg" ELSE "img"]

PoolProducts(n) == AppendPage(<<>>, PageEntries(0, PoolShapes(n)))

InitPool ==
    /\ pc = "save_prepare"
    /\ exc = "none"
    /\ page = 1
    /\ all_products = <<>>
    /\ retries_left = RetryTotal
    /\ attempts = 0
    /\ last = 0
    /\ response = NetError
    /\ inflight = {}
    /\ requests = <<>>
    /\ log = <<>>
    /\ fetched = TRUE
    /\ \E n \in {0, 3, NPool} :
        /\ products = PoolProducts(n)
        /\ flaky_once = (IF n = 3 THEN {ProductId(3)} ELSE {})
        /\ reliable = {ProductId(k) : k \in 2..n} \ flaky_once
        /\ slow = {ProductId(k) : k \in 4..(n - 1)}
    /\ image_tasks = <<>>
    /\ fut = <<>>
    /\ pending = {}
    /\ timed_out = {}
    /\ download_results = <<>>
    /\ output_file = None
    /\ disk = <<>>

NextPool ==
    \/ PrepareTasks
    \/ Submit
    \/ AsCompleted
    \/ StartDownload
    \/ FinishDownload
    \/ Collect
    \/ CollectDone
    \/ Timeout
    \/ ShutdownDone
    \/ WriteReport

SpecPool == InitPool /\ [][NextPool]_vars

(***************************************************************************)
(* save_products alone, called with one product whose image URL is one of  *)
(* the URLs below: a path with or without extension, followed by no query  *)
(* string or by one that may hold "." and "/".                             *)
(***************************************************************************)
UrlPaths == {<<"https:", "/", "/", "cdn", "/", "files", "/", "p1">>,
             <<"https:", "/", "/", "cdn", "/", "files", "/", "p1", ".", "png">>,
             <<"https:", "/", "/", "cdn", "/", "v1", ".", "2", "/", "p1">>}

UrlQueries == {<<>>,
               <<"?", "v=1">>,
               <<"?", "v=1", ".", "2">>,
               <<"?", "u=a", "/", "b">>,
               <<"?", "u=a", ".", "b", "/", "c">>}

ImageUrls == {path \o query : path \in UrlPaths, query \in UrlQueries}

\* the record of a product whose first image is at url
ProductWithImage(url) == Normalize([Entry(1, "img") EXCEPT !.images = <<[src |-> url]>>])

InitExt ==
    /\ pc = "save_prepare"
    /\ exc = "none"
    /\ page = 1
    /\ all_products = <<>>
    /\ retries_left = RetryTotal
    /\ attempts = 0
    /\ last = 0
    /\ response = NetError
    /\ inflight = {}
    /\ requests = <<>>
    /\ log = <<>>
    /\ fetched = TRUE
    /\ \E url \in ImageUrls : products = <<ProductWithImage(url)>>
    /\ image_tasks = <<>>
    /\ fut = <<>>
    /\ pending = {}
    /\ timed_out = {}
    /\ download_results = <<>>
    /\ output_file = None
    /\ disk = <<>>
    /\ reliable = {}
    /\ slow = {}
    /\ flaky_once = {}

SpecExt == InitExt /\ [][NextPool]_vars

(***************************************************************************)
(* fetch_products alone (line 144).  The loop is sequential code and each  *)
(* attempt of a request ends (timeout=10, line 48): a step that can be     *)
(* taken is taken.                                                         *)
(***************************************************************************)
NextFetch ==
    \/ IssueRequest
    \/ Attempt
    \/ HandleResponse

SpecFetch == Init /\ [][NextFetch]_vars /\ WF_vars(NextFetch)

(***************************************************************************)
(* Properties of fetch_products.                                          *)
(***************************************************************************)
\* a 200 response whose body is an object with a products list
IsPage(r) == r.kind = "http" /\ r.status = 200 /\ r.body.kind = "object"

NonEmptyPage(r) == IsPage(r) /\ r.body.products # <<>>

EmptyPage(r) == IsPage(r) /\ r.body.products = <<>>

\* every entry of the page has the fields the normalization reads
WellFormedPage(r) ==
    \A k \in 1..Len(r.body.products) :
        LET p == r.body.products[k]
        IN  /\ {"id", "title", "handle", "images", "variants"} \subseteq DOMAIN p
            /\ p.variants # <<>>

\* a request that failed: an exception of session.get, an error status, or a
\* body that is no JSON
FailedRequest(r) ==
    \/ r.kind = "exception"
    \/ r.kind = "http" /\ r.status >= 400
    \/ r.kind = "http" /\ r.status = 200 /\ r.body.kind = "notjson"

\* the normalized records of the pages l[1..k], in page order and source order
RECURSIVE RecordsOfPages(_, _)
RecordsOfPages(l, k) ==
    IF k = 0 THEN <<>>
    ELSE RecordsOfPages(l, k - 1)
         \o [j \in 1..Len(l[k].body.products) |-> Normalize(l[k].body.products[j])]

\* the latest response has been dealt with by the loop
Handled == log # <<>> /\ pc \notin {"awaiting", "got_response"}

\* the exceptions that escape fetch_products
FetchExceptions == {"AttributeError", "KeyError", "IndexError"}

\* C1: when the pages 1..k were non-empty (well-formed entries) and page k+1 was
\* empty, fetch_products has returned exactly the normalized records of the pages
\* 1..k, in page order and source order, after k+1 requests.
C1_Concatenation ==
    LET n == Len(log)
    IN  (/\ Handled
         /\ EmptyPage(log[n])
         /\ \A i \in 1..(n - 1) : NonEmptyPage(log[i]) /\ WellFormedPage(log[i]))
        => /\ fetched
           /\ products = RecordsOfPages(log, n - 1)
           /\ requests = [i \in 1..n |-> i]

\* two non-empty pages, then an empty one, and the run has ended
C1_Witness ==
    /\ pc = "done"
    /\ Len(log) = 3
    /\ NonEmptyPage(log[1]) /\ NonEmptyPage(log[2]) /\ EmptyPage(log[3])
    /\ Len(products) = 3

\* C2: when the request for page j has failed (exception of session.get after the
\* retries, error status, or a body that is no JSON), fetch_products has returned
\* exactly the records of the pages 1..j-1, no exception has left it, and no
\* further request was made.
C2_PartialOnFailure ==
    LET j == Len(log)
    IN  (Handled /\ FailedRequest(log[j]))
        => /\ fetched
           /\ exc \notin FetchExceptions
           /\ products = RecordsOfPages(log, j - 1)
           /\ Len(requests) = j

\* page 1 gave products, the request for page 2 failed, and fetch_products is over
C2_Witness ==
    /\ Len(log) = 2
    /\ Handled
    /\ NonEmptyPage(log[1])
    /\ FailedRequest(log[2])
    /\ products # <<>>

\* C9: at most one page request is outstanding; the pages requested are 1, 2, 3,
\* ... without gap or repeat; every request but the latest has ended, and ended
\* with a non-empty product list.
C9_Sequential ==
    /\ Cardinality(inflight) <= 1
    /\ requests = [i \in 1..Len(requests) |-> i]
    /\ Len(requests) - Len(log) \in {0, 1}
    /\ inflight = (IF Len(requests) > Len(log) THEN {Len(requests)} ELSE {})
    /\ \A i \in 1..(Len(requests) - 1) : NonEmptyPage(log[i])

\* the request for page 3 is outstanding
C9_Witness == inflight = {3} /\ Len(log) = 2

TaskIds == {image_tasks[t].pid : t \in Tasks}

\* the download stage (lines 107-120) is over
DownloadStageOver == pc \in {"write", "done"} \/ (pc = "crashed" /\ exc = "TimeoutError")

\* C3: when the download stage is over, download_results has exactly one key per
\* submitted task.
C3_OneOutcomePerTask ==
    DownloadStageOver => DOMAIN download_results = TaskIds

\* C4: when the batch wait has timed out, every task unfinished at that moment
\* ends with an entry of success=false under its identifier.
C4_TimedOutTasksRecorded ==
    (pc = "crashed" /\ exc = "TimeoutError")
    => \A t \in timed_out :
          /\ image_tasks[t].pid \in DOMAIN download_results
          /\ download_results[image_tasks[t].pid][2] = FALSE

\* C5: no exception escapes the run, and a run that has ended has written the
\* report.
C5_NoEscape ==
    /\ exc = "none"
    /\ pc \in {"done", "crashed"} => output_file # None

\* the image line the contract asks for, given the outcome mapping r
ContractLine(product, r) ==
    IF product.image = None THEN <<"No image available">>
    ELSE IF product.id \in DOMAIN r /\ r[product.id][2]
         THEN <<"Image saved: ", r[product.id][1]>>
         ELSE <<"Image download failed">>

\* the mapping r without the keys outside keep
Restrict(r, keep) == [k \in (DOMAIN r) \cap keep |-> r[k]]

\* C6: the report written holds one record per product, in fetch order, with the
\* product's title, price and URL and the image line of the contract; and the
\* report stage yields the contract's lines for every part of the outcome mapping
\* too, a product without entry reading 'Image download failed'.
C6_Report ==
    pc = "done"
    => /\ output_file # None
       /\ Len(output_file[1]) = Len(products)
       /\ \A k \in 1..Len(products) :
             /\ output_file[1][k].name = products[k].title
             /\ output_file[1][k].price = products[k].price
             /\ output_file[1][k].url = products[k].url
             /\ output_file[1][k].image = ContractLine(products[k], download_results)
       /\ \A keep \in SUBSET (DOMAIN download_results) :
             LET r == Restrict(download_results, keep)
             IN  \A k \in 1..Len(products) :
                    Report(products, r)[k].image = ContractLine(products[k], r)

\* a report with a saved image, a failed download and a product without image
C6_Witness ==
    /\ pc = "done"
    /\ Len(products) = 3
    /\ \E i, j, k \in 1..3 :
          /\ output_file[1][i].image = <<"No image available">>
          /\ output_file[1][j].image = <<"Image download failed">>
          /\ Len(output_file[1][k].image) = 2

\* a failed download's pair is (source URL, False), and each recorded pair is the
\* pair of the task that owns the key
C7_Outcomes ==
    /\ \A t \in Finished :
          fut[t].result[1][2] = FALSE => fut[t].result[1] = <<image_tasks[t].url, FALSE>>
    /\ \A id \in DOMAIN download_results :
          \E t \in Finished :
             image_tasks[t].pid = id /\ download_results[id] = fut[t].result[1]

\* a download that ends in failure changes its own future and nothing else
C7_FailureStep ==
    \A t \in Running :
        (fut'[t].st = "finished" /\ fut'[t].result[1][2] = FALSE)
        => /\ pc' = pc
           /\ exc' = exc
           /\ download_results' = download_results
           /\ pending' = pending
           /\ \A u \in (1..Len(fut)) \ {t} : fut'[u] = fut[u]

\* C7: a failing download yields (source URL, False) under its own identifier
\* only, raises nothing, ends nothing, and leaves every other task as it was.
C7_FailureIsolated == []C7_Outcomes /\ [][C7_FailureStep]_vars

\* the run ended with the report written, one download failed and one saved
C7_Witness ==
    /\ pc = "done"
    /\ exc = "none"
    /\ \E a, b \in DOMAIN download_results :
          /\ download_results[a][2] = FALSE
          /\ download_results[b][2] = TRUE

\* as_completed starts to wait only when every task is submitted
AllSubmittedUpFront ==
    pc \in {"collect", "shutdown", "write", "done", "crashed"} => Len(fut) = Len(image_tasks)

\* a queued call is started only while fewer than 10 downloads are in progress
StartsOnlyWhenFree ==
    \A t \in Queued : fut'[t].st = "running" => Cardinality(Running) < 10

\* C8: at most 10 downloads are in progress at any time; every task is submitted
\* before the results are waited for; a queued task starts only when a pool thread
\* is free.
C8_BoundedPool ==
    /\ [](Cardinality(Running) <= 10 /\ AllSubmittedUpFront)
    /\ [][StartsOnlyWhenFree]_vars

\* ten downloads in progress and an eleventh task waiting in the queue
C8_Witness == Cardinality(Running) = 10 /\ Queued # {}

(***************************************************************************)
(* Properties of download_image.                                          *)
(***************************************************************************)
\* C11: the retry policy applies to image downloads too: a download whose host
\* fails the first request with a transient error (503, timeout) and would serve
\* the second one ends with success=true.
C11_DownloadsRetried ==
    \A t \in Finished :
        image_tasks[t].pid \in flaky_once => fut[t].result[1][2] = TRUE

(***************************************************************************)
(* Further properties of fetch_products.                                  *)
(***************************************************************************)
\* the entries of the pages l[1..k] as the endpoint sent them, in order
RECURSIVE RawOfPages(_, _)
RawOfPages(l, k) ==
    IF k = 0 THEN <<>> ELSE RawOfPages(l, k - 1) \o l[k].body.products

\* C12: every entry the loop has taken up has one record, in order, whose image
\* is None when the entry's images list is empty and the src of its first image
\* otherwise; an empty images list raises nothing: the normalization raises only
\* on a page with an entry that lacks a field or has no variant.
C12_ImageField ==
    LET raw == RawOfPages(log, page - 1)
    IN  /\ Len(all_products) = Len(raw)
        /\ \A j \in 1..Len(raw) :
              all_products[j].image = (IF raw[j].images = <<>> THEN None
                                       ELSE Some(raw[j].images[1].src))
        /\ (pc = "crashed" /\ exc \in {"KeyError", "IndexError"})
           => ~WellFormedPage(log[Len(log)])

\* fetch_products has returned the records of a page that had an entry without
\* images and an entry with images
C12_Witness ==
    /\ fetched
    /\ Len(log) = 2
    /\ NonEmptyPage(log[1])
    /\ \E i, j \in 1..Len(log[1].body.products) :
          /\ log[1].body.products[i].images = <<>>
          /\ products[i].image = None
          /\ log[1].body.products[j].images # <<>>
          /\ products[j].image = Some(log[1].body.products[j].images[1].src)

\* the page that ends the pagination by the contract: empty, or a failed request
StopPage(r) == EmptyPage(r) \/ FailedRequest(r)

\* an empty or failing page is the last page requested, and once the loop has
\* dealt with it fetch_products has returned what it had; 2 products and then 0
\* make exactly 2 requests and 2 records
StopPageIsLast ==
    /\ \A i \in 1..Len(log) :
          StopPage(log[i])
          => /\ i = Len(log)
             /\ Len(requests) = i
             /\ Handled => (fetched /\ products = all_products)
    /\ (/\ Handled
        /\ Len(log) = 2
        /\ NonEmptyPage(log[1]) /\ WellFormedPage(log[1])
        /\ Len(log[1].body.products) = 2
        /\ EmptyPage(log[2]))
       => /\ requests = <<1, 2>>
          /\ Len(products) = 2

\* C13: once the endpoint has answered with an empty or failing page,
\* fetch_products terminates, and that page is the last page requested (2 products,
\* then 0: exactly 2 requests and 2 records).
C13_Terminates ==
    /\ []StopPageIsLast
    /\ (pc = "got_response" /\ StopPage(response)) ~> fetched

\* fetch_products has returned 2 records after a page of 2 products and an empty one
C13_Witness ==
    /\ fetched
    /\ Len(log) = 2
    /\ NonEmptyPage(log[1])
    /\ Len(log[1].body.products) = 2
    /\ EmptyPage(log[2])
    /\ requests = <<1, 2>>
    /\ Len(products) = 2

(***************************************************************************)
(* Further properties of save_products.                                   *)
(***************************************************************************)
\* the report stage leaves the product list and the outcome mapping as they are
ReportStageReadsOnly ==
    pc \in {"write", "done"}
    => (products' = products /\ download_results' = download_results)

\* C14: the report on file is the report of the product list and outcome mapping
\* as they are after the stage, so that running the stage on them again yields the
\* same output; the stage changes neither the products nor the mapping.
C14_ReportPure ==
    /\ [](pc = "done" => output_file = Some(Report(products, download_results)))
    /\ [][ReportStageReadsOnly]_vars

\* the report of two products and a non-empty outcome mapping is written
C14_Witness ==
    /\ pc = "done"
    /\ Len(products) >= 2
    /\ download_results # <<>>
    /\ output_file = Some(Report(products, download_results))

\* the extension of the URL's path, the query string taken off first; '.jpg' when
\* the path has none
PathExt(url) ==
    IF SplitExt(BeforeQuery(url)) # <<>> THEN SplitExt(BeforeQuery(url)) ELSE <<".", "jpg">>

\* C15: the file a download has saved is named by the task's path and the
\* extension of the URL's path, taken before any query string ('.jpg' exactly when
\* the path has no extension), also when the query string holds "." or "/".
C15_ExtensionOfPath ==
    \A t \in Finished :
        fut[t].result[1][2] = TRUE
        => /\ fut[t].result[1][1] = image_tasks[t].path \o PathExt(image_tasks[t].url)
           /\ DOMAIN disk = {image_tasks[t].path \o PathExt(image_tasks[t].url)}

\* save_products is over: it has returned, or the TimeoutError has left it
SaveEnded == pc \in {"done", "crashed"}

\* save_products ends only when every task is submitted and has run to completion,
\* and while the with block's exit waits, a call is in progress or a queued call
\* has a free thread to start on
AllTasksComplete ==
    /\ SaveEnded => (Len(fut) = Len(image_tasks) /\ Finished = Tasks)
    /\ pc = "shutdown"
       => \/ Finished = Tasks
          \/ Running # {}
          \/ Queued # {} /\ Cardinality(Running) < MaxWorkers

\* a submitted call stays submitted and only moves on: queued, running, finished;
\* and the product list save_products was called with stays as it is
FuturesOnlyAdvance ==
    /\ Len(fut') >= Len(fut)
    /\ \A t \in 1..Len(fut) :
          \/ fut'[t] = fut[t]
          \/ fut[t].st = "queued" /\ fut'[t].st = "running"
          \/ fut[t].st = "running" /\ fut'[t].st = "finished"
    /\ products' = products

\* C16: a failing or timed-out download cancels nothing: every submitted call only
\* moves on from queued to running to finished, whatever the other downloads do;
\* save_products does not end before every task has run to completion, and is not
\* stuck waiting for one that cannot; and the product list is unaffected.
C16_NothingCancelled ==
    /\ []AllTasksComplete
    /\ [][FuturesOnlyAdvance]_vars

\* the batch wait timed out with all eleven tasks unfinished, one of them still
\* queued behind the ten threads, a download failed, and every task has finished
C16_Witness ==
    /\ pc = "crashed"
    /\ exc = "TimeoutError"
    /\ Cardinality(timed_out) = MaxWorkers + 1
    /\ Finished = Tasks
    /\ \E t \in Finished : fut[t].result[1][2] = FALSE
    /\ \E t \in Finished : fut[t].result[1][2] = TRUE

\* the entries written stay as they are, and a step writes at most one new key:
\* the identifier of a finished task not yet yielded, with that task's pair
WritesOnceForOwner ==
    /\ \A id \in DOMAIN download_results :
          id \in DOMAIN download_results' /\ download_results'[id] = download_results[id]
    /\ Cardinality((DOMAIN download_results') \ (DOMAIN download_results)) <= 1
    /\ \A id \in (DOMAIN download_results') \ (DOMAIN download_results) :
          \E t \in pending \cap Finished :
             /\ image_tasks[t].pid = id
             /\ download_results'[id] = fut[t].result[1]
             /\ pending' = pending \ {t}

\* no two tasks own the same key, and the keys written are those of tasks already
\* yielded
KeysOwned ==
    /\ \A t, u \in Tasks : image_tasks[t].pid = image_tasks[u].pid => t = u
    /\ \A id \in DOMAIN download_results :
          \E t \in Tasks \ pending : image_tasks[t].pid = id

\* C17: under every interleaving of the downloads' completions, each key of the
\* outcome mapping is written at most once, for the one task that owns it, and an
\* entry once written is never changed or removed.
C17_SingleWriterPerKey == []KeysOwned /\ [][WritesOnceForOwner]_vars

\* of three tasks, two have their entries, written before that of the first task
C17_Witness ==
    /\ Len(image_tasks) = 3
    /\ Cardinality(DOMAIN download_results) = 2
    /\ 1 \in pending
    /\ image_tasks[1].pid \notin DOMAIN download_results

\* the positions of the products that have an image URL
ImageIndices == {k \in 1..Len(products) : products[k].image # None}

\* the position of the t-th product that has an image URL
NthImageIndex(t) ==
    CHOOSE k \in ImageIndices : Cardinality({j \in ImageIndices : j <= k}) = t

\* C18: once the task list is built, its tasks are, in order, the products that
\* have an image URL, each carrying its product's identifier and image URL; only
\* tasks of the list are ever submitted, so no download exists for a product
\* without image URL: such a product has no task, no outcome and no file.
C18_TasksMatchImages ==
    /\ Len(fut) <= Len(image_tasks)
    /\ (fetched /\ pc # "save_prepare")
       => /\ Len(image_tasks) = Cardinality(ImageIndices)
          /\ \A t \in Tasks :
                /\ image_tasks[t].pid = products[NthImageIndex(t)].id
                /\ image_tasks[t].url = products[NthImageIndex(t)].image[1]
          /\ \A k \in (1..Len(products)) \ ImageIndices :
                /\ products[k].id \notin TaskIds
                /\ products[k].id \notin DOMAIN download_results
                /\ \A f \in DOMAIN disk :
                      SubSeq(f, 1, Len(ImgPath(products[k].id))) # ImgPath(products[k].id)

\* of three products the second has no image URL; the two tasks of the other two
\* have run
C18_Witness ==
    /\ Len(products) = 3
    /\ products[2].image = None
    /\ Len(image_tasks) = 2
    /\ Finished = {1, 2}
    /\ DOMAIN download_results = {products[1].id, products[3].id}

\* the file f is the one task t writes: the task's path and an extension
FileOfTask(f, t) ==
    /\ Len(f) > Len(image_tasks[t].path)
    /\ SubSeq(f, 1, Len(image_tasks[t].path)) = image_tasks[t].path

\* the file f exists and every chunk of the response was written to it; a file
\* exists only for a response with a non-error status (line 82 precedes line 83)
CompletelyWritten(f) == f \in DOMAIN disk /\ disk[f] = "complete"

\* the report's image line of the product of task t
ReportLineOf(t) ==
    LET k == CHOOSE i \in 1..Len(products) : products[i].id = image_tasks[t].pid
    IN  output_file[1][k].image

\* C19: a pair with success=true, in a future or in the outcome mapping, names a
\* file that was completely written; the report says 'Image saved' only for such a
\* file; and a download cut short midway is a failure (source URL, False), reported
\* as 'Image download failed', with its partial file left on disk.
C19_SuccessMeansComplete ==
    /\ \A t \in Finished :
          fut[t].result[1][2] = TRUE
          => LET f == fut[t].result[1][1]
             IN  FileOfTask(f, t) /\ CompletelyWritten(f)
    /\ \A f \in DOMAIN disk :
          \E t \in Finished :
             /\ FileOfTask(f, t)
             /\ disk[f] = "partial"
                => /\ fut[t].result[1] = <<image_tasks[t].url, FALSE>>
                   /\ pc = "done" => ReportLineOf(t) = <<"Image download failed">>
    /\ \A id \in DOMAIN download_results :
          download_results[id][2] = TRUE => CompletelyWritten(download_results[id][1])
    /\ pc = "done"
       => \A k \in 1..Len(products) :
             output_file[1][k].image[1] = "Image saved: "
             => CompletelyWritten(output_file[1][k].image[2])

\* the report is written: one download was cut short and left a partial file, one
\* file was completely written
C19_Witness ==
    /\ pc = "done"
    /\ \E f, g \in DOMAIN disk : disk[f] = "partial" /\ disk[g] = "complete"
    /\ \E k \in 1..Len(products) : output_file[1][k].image = <<"Image download failed">>
    /\ \E k \in 1..Len(products) : output_file[1][k].image[1] = "Image saved: "

====
